---------------------------- MODULE Spec2Model ----------------------------
(***************************************************************************)
(* Model of the profile synchronizer of src/App.tsx: the App component's   *)
(* state (user, userProfile, loading), the browser's local store entry     *)
(* 'guestProfile', the Firestore listeners and writes it starts, and the   *)
(* JSON codec (jsonReplacer under JSON.stringify, the reviver under        *)
(* JSON.parse) it stores guest profiles with.                              *)
(*                                                                         *)
(* String values are tuples of one-character strings, so that substring    *)
(* and charCodeAt are computed; object keys are plain strings.             *)
(***************************************************************************)
EXTENDS Naturals, Sequences, FiniteSets, TLC

-----------------------------------------------------------------------------
(* In-memory JavaScript values, tagged by kind.  An object-like value      *)
(* carries oid, its identity for the encoder's WeakSet; 0 is a fresh       *)
(* object that nothing else refers to.                                     *)

Undef == [k |-> "undef"]
Null == [k |-> "null"]
Bool(b) == [k |-> "bool", v |-> b]
Num(n) == [k |-> "num", v |-> n]
Str(s) == [k |-> "str", v |-> s]
DateV(t) == [k |-> "date", t |-> t, oid |-> 0]
SetV(m) == [k |-> "set", m |-> m, oid |-> 0]
Arr(e) == [k |-> "arr", e |-> e, oid |-> 0]
Obj(f) == [k |-> "obj", f |-> f, oid |-> 0]
\* An array or a plain object that is referred to from more than one place
ArrId(e, oid) == [k |-> "arr", e |-> e, oid |-> oid]
ObjId(f, oid) == [k |-> "obj", f |-> f, oid |-> oid]
\* The occurrence, inside the object oid, of that object itself: the
\* reference that closes a cycle
Ref(oid) == [k |-> "ref", oid |-> oid]
\* An object that is no Date, Set, array or object literal: tag is what
\* Object.prototype.toString reports of it ("Object" for a class instance,
\* "Map" for a Map), f its own enumerable properties
Instance(tag, f) == [k |-> "instance", tag |-> tag, f |-> f, oid |-> 0]

\* typeof value === 'object' && value !== null
IsObject(value) == value.k \in {"date", "set", "arr", "obj", "ref", "instance"}

\* JavaScript truthiness, as tested by if (storedProfile) and if (!guestProfile)
Truthy(value) ==
  CASE value.k \in {"undef", "null"} -> FALSE
    [] value.k = "bool" -> value.v
    [] value.k = "num" -> value.v # 0
    [] value.k = "str" -> value.v # <<>>
    [] OTHER -> TRUE

(* JSON text, as a syntax tree; Garbage is a text that is no JSON,         *)
(* EmptyText the empty string.                                             *)
JNull == [t |-> "jnull"]
JBool(b) == [t |-> "jbool", v |-> b]
JNum(n) == [t |-> "jnum", v |-> n]
JStr(s) == [t |-> "jstr", v |-> s]
JArr(e) == [t |-> "jarr", e |-> e]
JObj(f) == [t |-> "jobj", f |-> f]
Garbage == [t |-> "garbage"]
EmptyText == [t |-> "empty"]
\* JSON.stringify's result undefined: the value has no JSON text
NoText == [t |-> "undefined"]
\* JSON.stringify throwing TypeError on a structure that contains itself
TypeError == [t |-> "typeerror"]
\* localStorage.getItem's null
NoItem == [t |-> "absent"]

-----------------------------------------------------------------------------
(* Points in time are milliseconds after 2026-01-01T00:00:00.000Z.         *)

MaxInstant == 999

DigitChar == <<"0", "1", "2", "3", "4", "5", "6", "7", "8", "9">>

IsDigit(c) == \E i \in 1..10 : DigitChar[i] = c

DigitVal(c) == (CHOOSE i \in 1..10 : DigitChar[i] = c) - 1

IsoDate == <<"2", "0", "2", "6", "-", "0", "1", "-", "0", "1">>

IsoMidnight == <<"T", "0", "0", ":", "0", "0", ":", "0", "0", ".">>

\* Date.prototype.toISOString
ToISOString(t) ==
  IsoDate \o IsoMidnight
    \o <<DigitChar[(t \div 100) + 1], DigitChar[((t \div 10) % 10) + 1],
         DigitChar[(t % 10) + 1], "Z">>

NaN == MaxInstant + 1

\* new Date(string).getTime(): the date-time form, the date-only form, or NaN
DateParse(s) ==
  IF s = IsoDate THEN 0
  ELSE IF /\ Len(s) = 24
          /\ SubSeq(s, 1, 20) = IsoDate \o IsoMidnight
          /\ \A i \in 21..23 : IsDigit(s[i])
          /\ s[24] = "Z"
       THEN 100 * DigitVal(s[21]) + 10 * DigitVal(s[22]) + DigitVal(s[23])
       ELSE NaN

-----------------------------------------------------------------------------
(* Encoding: JSON.stringify(value, jsonReplacer()).                        *)

\* Own enumerable keys are visited in this order.
KeyOrder ==
  <<"uid", "displayName", "email", "photoURL", "createdAt", "startDate",
    "isAdmin", "isMuted", "role", "commitmentDocument", "blockedUsers",
    "emergencyIndex", "urgeIndex", "storyIndex", "journalEntries", "habits",
    "followUpLogs", "communityPostFireReactions",
    "timestamp", "text", "lastSeen", "self", "next", "owner", "list", "handle",
    "path", "cache", "x">>

OwnKeys(f) == SelectSeq(KeyOrder, LAMBDA key : key \in DOMAIN f)

\* Members of a Set are listed in this order.
MemberOrder == <<Str(<<"p", "1">>), Str(<<"p", "2">>)>>

ArrayFrom(m) == SelectSeq(MemberOrder, LAMBDA x : x \in m)

\* JSON.stringify calls a value's toJSON before the replacer sees it
ToJSON(value) ==
  IF value.k = "date" THEN Str(ToISOString(value.t)) ELSE value

\* jsonReplacer without its branch for Set: a Set passes as a plain object,
\* which has no own properties
jsonReplacer_SetAsObject(value, seen) ==
  IF ~IsObject(value) THEN [ret |-> value, seen |-> seen]
  ELSE IF value.oid # 0 /\ value.oid \in seen THEN [ret |-> Undef, seen |-> seen]
  ELSE LET added == IF value.oid # 0 THEN seen \cup {value.oid} ELSE seen
       IN CASE value.k = "date" ->
                 [ret |-> Str(ToISOString(value.t)), seen |-> added]
            [] value.k = "set" -> [ret |-> Obj(<<>>), seen |-> added]
            [] value.k \in {"arr", "obj"} -> [ret |-> value, seen |-> added]
            [] OTHER -> [ret |-> Undef, seen |-> added]

\* Object.prototype.toString.call(value) === '[object Object]'
IsObjectObject(value) ==
  value.k \in {"obj", "ref"} \/ (value.k = "instance" /\ value.tag = "Object")

\* jsonReplacer without its test of seen
jsonReplacer_NoSeen(value, seen) ==
  IF ~IsObject(value) THEN [ret |-> value, seen |-> seen]
  ELSE CASE value.k = "date" ->
              [ret |-> Str(ToISOString(value.t)), seen |-> seen]
         [] value.k = "set" -> [ret |-> Arr(ArrayFrom(value.m)), seen |-> seen]
         [] value.k = "arr" \/ IsObjectObject(value) -> [ret |-> value, seen |-> seen]
         [] OTHER -> [ret |-> Undef, seen |-> seen]

\* The function jsonReplacer() returns, with its WeakSet seen passed through
jsonReplacer(value, seen) ==
  IF ~IsObject(value) THEN [ret |-> value, seen |-> seen]
  ELSE IF value.oid # 0 /\ value.oid \in seen THEN [ret |-> Undef, seen |-> seen]
  ELSE LET added == IF value.oid # 0 THEN seen \cup {value.oid} ELSE seen
       IN CASE value.k = "date" ->
                 [ret |-> Str(ToISOString(value.t)), seen |-> added]
            [] value.k = "set" ->
                 [ret |-> Arr(ArrayFrom(value.m)), seen |-> added]
            [] value.k = "arr" \/ IsObjectObject(value) ->
                 [ret |-> value, seen |-> added]
            [] OTHER -> [ret |-> Undef, seen |-> added]

RECURSIVE SerializeJSONProperty(_, _)
RECURSIVE SerializeJSONArray(_, _, _)
RECURSIVE SerializeJSONObject(_, _, _)

\* One property: toJSON, the replacer, then the text of what it returned;
\* thrown tells that JSON.stringify met an object inside itself
SerializeJSONProperty(value, seen) ==
  LET r == jsonReplacer(ToJSON(value), seen)
      v == r.ret
  IN CASE v.k = "null" -> [out |-> JNull, seen |-> r.seen, thrown |-> FALSE]
       [] v.k = "bool" -> [out |-> JBool(v.v), seen |-> r.seen, thrown |-> FALSE]
       [] v.k = "num" -> [out |-> JNum(v.v), seen |-> r.seen, thrown |-> FALSE]
       [] v.k = "str" -> [out |-> JStr(v.v), seen |-> r.seen, thrown |-> FALSE]
       [] v.k = "arr" ->
            LET a == SerializeJSONArray(v.e, 1, r.seen)
            IN [out |-> JArr(a.out), seen |-> a.seen, thrown |-> a.thrown]
       [] v.k \in {"obj", "instance"} ->
            LET o == SerializeJSONObject(v.f, OwnKeys(v.f), r.seen)
            IN [out |-> JObj(o.out), seen |-> o.seen, thrown |-> o.thrown]
       [] v.k = "ref" -> [out |-> NoText, seen |-> r.seen, thrown |-> TRUE]
       [] OTHER -> [out |-> NoText, seen |-> r.seen, thrown |-> FALSE]

\* The elements from index i on; an element without text is written null
SerializeJSONArray(e, i, seen) ==
  IF i > Len(e) THEN [out |-> <<>>, seen |-> seen, thrown |-> FALSE]
  ELSE LET h == SerializeJSONProperty(e[i], seen)
           r == SerializeJSONArray(e, i + 1, h.seen)
       IN [out |-> <<IF h.out.t = "undefined" THEN JNull ELSE h.out>> \o r.out,
           seen |-> r.seen, thrown |-> (h.thrown \/ r.thrown)]

\* The properties named by keys; a property without text is left out
SerializeJSONObject(f, keys, seen) ==
  IF keys = <<>> THEN [out |-> <<>>, seen |-> seen, thrown |-> FALSE]
  ELSE LET h == SerializeJSONProperty(f[Head(keys)], seen)
           r == SerializeJSONObject(f, Tail(keys), h.seen)
       IN [out |-> IF h.out.t = "undefined" THEN r.out
                   ELSE (Head(keys) :> h.out) @@ r.out,
           seen |-> r.seen, thrown |-> (h.thrown \/ r.thrown)]

\* JSON.stringify(value, jsonReplacer()): every call starts with a new WeakSet
stringify(value) ==
  IF SerializeJSONProperty(value, {}).thrown THEN TypeError
  ELSE SerializeJSONProperty(value, {}).out

-----------------------------------------------------------------------------
(* Decoding: JSON.parse(text, reviver).                                    *)

dateKeys == {"createdAt", "startDate", "timestamp"}

\* The reviver passed to JSON.parse
reviver(key, value) ==
  IF key \in dateKeys /\ value.k = "str" /\ DateParse(value.v) # NaN
  THEN DateV(DateParse(value.v))
  ELSE IF key = "communityPostFireReactions" /\ value.k = "arr"
       THEN SetV({value.e[i] : i \in 1..Len(value.e)})
       ELSE value

RECURSIVE InternalizeJSONProperty(_, _)

\* JSON.parse's walk: the children first, then the reviver on the value
InternalizeJSONProperty(key, j) ==
  LET val ==
        CASE j.t = "jnull" -> Null
          [] j.t = "jbool" -> Bool(j.v)
          [] j.t = "jnum" -> Num(j.v)
          [] j.t = "jstr" -> Str(j.v)
          [] j.t = "jarr" ->
               Arr([i \in 1..Len(j.e) |-> InternalizeJSONProperty("index", j.e[i])])
          [] j.t = "jobj" ->
               Obj([key2 \in DOMAIN j.f |-> InternalizeJSONProperty(key2, j.f[key2])])
  IN reviver(key, val)

\* Whether JSON.parse throws a SyntaxError on the text
ParseThrows(text) == text.t \in {"garbage", "empty", "undefined"}

\* JSON.parse(text, reviver) of a text that is JSON
parse(text) == InternalizeJSONProperty("", text)

-----------------------------------------------------------------------------
(* The identities the identity provider can deliver (firebase User).       *)

Guest1 ==
  [uid |-> <<"a", "b", "c", "1", "2", "x", "y", "z">>, isAnonymous |-> TRUE,
   displayName |-> Null, email |-> Null, photoURL |-> Null]

Guest2 ==
  [uid |-> <<"z", "q", "7">>, isAnonymous |-> TRUE,
   displayName |-> Null, email |-> Null, photoURL |-> Null]

Member1 ==
  [uid |-> <<"C", "m", "1">>, isAnonymous |-> FALSE,
   displayName |-> Str(<<"S", "a", "m">>), email |-> Str(<<"s", "@", "x">>),
   photoURL |-> Null]

Member2 ==
  [uid |-> <<"D", "k", "2">>, isAnonymous |-> FALSE,
   displayName |-> Null, email |-> Null, photoURL |-> Null]

Member3 ==
  [uid |-> <<"B", "9">>, isAnonymous |-> FALSE,
   displayName |-> Str(<<"B", "o">>), email |-> Null, photoURL |-> Null]

Guests == {Guest1, Guest2}

Members == {Member1, Member2, Member3}

\* The identities that sign in while the whole App is explored
Users == Guests \cup {Member1}

\* The uid of the identity, or Null when there is none
UidOf(u) == IF u = Null THEN Null ELSE Str(u.uid)

\* String.prototype.substring(from, to)
Substring(s, from, to) ==
  SubSeq(s, from + 1, IF to < Len(s) THEN to ELSE Len(s))

\* The label of a guest, standing for the Arabic word for visitor and a space
GuestLabel == <<"Z", "a", "i", "r", " ">>

\* The placeholder name of a new member, standing for the Arabic "new user"
NewUserName == <<"N", "e", "w">>

\* The object literal of lines 95-111, with new Date() reading now
GuestDefault(u, now) ==
  Obj([uid |-> Str(u.uid),
       displayName |-> Str(GuestLabel \o Substring(u.uid, 0, 5)),
       createdAt |-> DateV(now),
       isAdmin |-> Bool(FALSE),
       isMuted |-> Bool(FALSE),
       commitmentDocument |-> Str(<<>>),
       blockedUsers |-> Arr(<<>>),
       emergencyIndex |-> Num(0),
       urgeIndex |-> Num(0),
       storyIndex |-> Num(0),
       journalEntries |-> Arr(<<>>),
       habits |-> Arr(<<>>),
       followUpLogs |-> Obj(<<>>),
       communityPostFireReactions |-> SetV({})])

\* serverTimestamp(): the sentinel the server replaces by its own clock
ServerTimestamp == [k |-> "serverTimestamp"]

\* ...(cond && { key: value }): the property only when cond is truthy
SpreadIf(cond, key, value) == IF Truthy(cond) THEN key :> value ELSE <<>>

\* The record newProfileData of lines 165-180, given to setDoc
NewProfileData(u) ==
  [displayName |->
     IF u.isAnonymous THEN Str(GuestLabel \o Substring(u.uid, 0, 5))
     ELSE IF Truthy(u.displayName) THEN u.displayName ELSE Str(NewUserName),
   createdAt |-> ServerTimestamp,
   isAdmin |-> Bool(FALSE),
   isMuted |-> Bool(FALSE),
   role |-> Null,
   commitmentDocument |-> Str(<<>>),
   blockedUsers |-> Arr(<<>>),
   emergencyIndex |-> Num(0),
   urgeIndex |-> Num(0),
   storyIndex |-> Num(0)]
  @@ SpreadIf(u.email, "email", u.email)
  @@ SpreadIf(u.photoURL, "photoURL", u.photoURL)

-----------------------------------------------------------------------------
(* The projection of an existing remote record (lines 123-161).            *)

\* A Firestore Timestamp, whose toDate() gives the point in time
Timestamp(t) == [k |-> "timestamp", t |-> t]

\* data.key: undefined when the record has no such field
Field(data, key) == IF key \in DOMAIN data THEN data[key] ELSE Undef

\* a ?? b
Nullish(a, b) == IF a.k \in {"undef", "null"} THEN b ELSE a

\* (a as Timestamp)?.toDate() || b
ToDateOr(a, b) == IF a.k = "timestamp" THEN DateV(a.t) ELSE b

\* AVATAR_OPTIONS of components/ui/AvatarPickerModal.tsx: the candidates
AVATAR_OPTIONS ==
  <<<<"a", "v", "0">>, <<"a", "v", "1">>, <<"a", "v", "2">>>>

\* The character codes of the first characters the uids start with
CharCode == [c \in {"a", "z", "B", "C", "D"} |->
               CASE c = "a" -> 97 [] c = "z" -> 122
                 [] c = "B" -> 66 [] c = "C" -> 67 [] c = "D" -> 68]

\* String.prototype.charCodeAt(i)
CharCodeAt(s, i) == CharCode[s[i + 1]]

\* An index that does not depend on the uid
avatarIndex_First(uid) == 0

\* line 128: avatarIndex
avatarIndex(uid) == CharCodeAt(uid, 0) % Len(AVATAR_OPTIONS)

\* line 129: defaultAvatarUrl, the candidate at avatarIndex (counted from 0)
DefaultAvatarUrl(uid) == Str(AVATAR_OPTIONS[avatarIndex(uid) + 1])

\* line 126: if (!data.photoURL)
NeedsAvatar(data) == ~Truthy(Field(data, "photoURL"))

\* The record left as the push delivered it
WithAvatar_Kept(u, data) == data

\* line 140: data.photoURL = defaultAvatarUrl when there was none
WithAvatar(u, data) ==
  IF NeedsAvatar(data) THEN ("photoURL" :> DefaultAvatarUrl(u.uid)) @@ data
  ELSE data

\* lines 143-161: profileData, built from the record the push delivered
ProfileData(u, data0, now) ==
  LET data == WithAvatar(u, data0)
  IN Obj([uid |-> Str(u.uid),
          displayName |-> Field(data, "displayName"),
          email |-> Field(data, "email"),
          photoURL |-> Field(data, "photoURL"),
          createdAt |-> ToDateOr(Field(data, "createdAt"), DateV(now)),
          startDate |-> ToDateOr(Field(data, "startDate"), Undef),
          isAdmin |-> Nullish(Field(data, "isAdmin"), Bool(FALSE)),
          isMuted |-> Nullish(Field(data, "isMuted"), Bool(FALSE)),
          role |-> Nullish(Field(data, "role"), Undef),
          commitmentDocument |-> Nullish(Field(data, "commitmentDocument"), Str(<<>>)),
          blockedUsers |-> Nullish(Field(data, "blockedUsers"), Arr(<<>>)),
          emergencyIndex |-> Nullish(Field(data, "emergencyIndex"), Num(0)),
          urgeIndex |-> Nullish(Field(data, "urgeIndex"), Num(0)),
          storyIndex |-> Nullish(Field(data, "storyIndex"), Num(0))])

-----------------------------------------------------------------------------
(* What the environment supplies.                                          *)

\* The readings of the client clock (new Date())
Clock == {120}

\* The records docSnap.data() can deliver
FullRecord ==
  [displayName |-> Str(<<"S", "a", "m">>), email |-> Str(<<"s", "@", "x">>),
   photoURL |-> Str(<<"p", "i", "c">>), createdAt |-> Timestamp(7),
   isAdmin |-> Bool(TRUE), storyIndex |-> Num(3)]

NoAvatarRecord ==
  [displayName |-> Str(<<"S", "a", "m">>), createdAt |-> Timestamp(7),
   commitmentDocument |-> Str(<<"d">>)]

EmptyRecord == <<>>

\* A record whose avatar field is the empty string
BlankAvatarRecord == [displayName |-> Str(<<"S", "a", "m">>), photoURL |-> Str(<<>>)]

RemoteRecords == {FullRecord, NoAvatarRecord, EmptyRecord, BlankAvatarRecord}

\* A stored snapshot that is JSON but lacks the profile's fields
PartialSnapshot == JObj([displayName |-> JStr(<<"o", "l", "d">>)])

\* What the local store may hold under 'guestProfile' when the App mounts
StoredAtStart ==
  {NoItem, EmptyText, Garbage, JNull, PartialSnapshot,
   stringify(GuestDefault(Guest1, 5))}

\* The bounds of the model
MaxListeners == 1

MaxWrites == 1

MaxSignIns == 1

-----------------------------------------------------------------------------
(* The state.                                                              *)

VARIABLES
  user,             \* useState<User | null>: the identity, or Null
  userProfile,      \* useState<UserProfile | null>: the held profile, or Null
  loading,          \* useState(true)
  guestProfileItem, \* localStorage's text under 'guestProfile', or NoItem
  listeners,        \* per member uid, the onSnapshot listeners that are open
  creates,          \* per member uid, the setDoc calls not yet settled
  backfills,        \* per member uid, the Promise.all of line 132 not yet settled
  signIns,          \* the signInAnonymously calls not yet settled
  notified,         \* whether onAuthStateChanged has called back yet
  createFailed,     \* a create failed for the identity since it became active
  last              \* the handler that ran last, and the calls it made

vars ==
  <<user, userProfile, loading, guestProfileItem, listeners, creates,
    backfills, signIns, notified, createFailed, last>>

MemberUids == {m.uid : m \in Members}

MemberOf(uid) == CHOOSE m \in Members : m.uid = uid

\* What App renders: lines 231-253 (the PIN lock is taken to be open)
Screen ==
  IF loading THEN "spinner"
  ELSE IF user # Null /\ Truthy(userProfile) THEN "main" ELSE "auth"

\* The record kept of a handler's run: the handler, the uid it ran for, its
\* argument, the calls it made, and the identity and readiness it found
Ran(op, who, arg, calls) ==
  [op |-> op, who |-> who, arg |-> arg, calls |-> calls,
   from |-> UidOf(user), ready |-> (~loading /\ Truthy(userProfile))]

Init ==
  /\ user = Null
  /\ userProfile = Null
  /\ loading = TRUE
  /\ guestProfileItem \in StoredAtStart
  /\ listeners = [uid \in MemberUids |-> 0]
  /\ creates = [uid \in MemberUids |-> 0]
  /\ backfills = [uid \in MemberUids |-> 0]
  /\ signIns = 0
  /\ notified = FALSE
  /\ createFailed = FALSE
  /\ last = [op |-> "mount", who |-> Null, arg |-> Null, calls |-> <<>>,
             from |-> Null, ready |-> FALSE]

-----------------------------------------------------------------------------
(* The onAuthStateChanged callback (lines 67-199).                         *)

\* lines 71-92: the stored profile as parsed, or null
StoredGuestProfile(storedProfile) ==
  IF storedProfile.t \in {"absent", "empty"} \/ ParseThrows(storedProfile)
  THEN Null
  ELSE parse(storedProfile)

\* line 91: the catch block removes the item a parse failed on
ParseFailed(storedProfile) ==
  storedProfile.t \notin {"absent", "empty"} /\ ParseThrows(storedProfile)

\* The guest branch filling the stored profile's gaps from the default
GuestProfile_Merged(storedProfile, u, now) ==
  IF ~Truthy(StoredGuestProfile(storedProfile)) THEN GuestDefault(u, now)
  ELSE IF StoredGuestProfile(storedProfile).k = "obj"
       THEN Obj(StoredGuestProfile(storedProfile).f @@ GuestDefault(u, now).f)
       ELSE StoredGuestProfile(storedProfile)

\* lines 94-115: the profile the guest branch sets
GuestProfile(storedProfile, u, now) ==
  IF ~Truthy(StoredGuestProfile(storedProfile)) THEN GuestDefault(u, now)
  ELSE StoredGuestProfile(storedProfile)

\* localStorage.setItem(key, value) stores String(value)
SetItemText(out) == IF out.t = "undefined" THEN Garbage ELSE out

\* A sign-out that forgets to remove the item
RemoveItem_Kept(item) == item

\* localStorage.removeItem(key), on the item the key holds
RemoveItem(item) == NoItem

\* lines 91 and 113: the item the guest branch leaves in the local store
GuestItem(storedProfile, u, now) ==
  IF ~Truthy(StoredGuestProfile(storedProfile))
  THEN SetItemText(stringify(GuestDefault(u, now)))
  ELSE storedProfile

\* The local store calls the guest branch makes
GuestCalls(storedProfile, u, now) ==
  (IF ParseFailed(storedProfile) THEN <<[fn |-> "removeItem"]>> ELSE <<>>)
  \o (IF ~Truthy(StoredGuestProfile(storedProfile))
      THEN <<[fn |-> "setItem", text |-> GuestItem(storedProfile, u, now)]>>
      ELSE <<>>)

\* line 192: what the callback's returned function is called on; the
\* identity provider ignores what the callback returns
Unsubscribed == {}

\* The listeners left open when the identity changes
ListenersKept(ls) == [uid \in MemberUids |-> IF uid \in Unsubscribed THEN 0 ELSE ls[uid]]

\* The identity provider calls back with u (Null: no identity), once after
\* the App mounts and then whenever the uid changes.
AuthStateChanged(u, now) ==
  /\ ~notified \/ UidOf(u) # UidOf(user)
  /\ (u # Null /\ ~u.isAnonymous) => listeners[u.uid] < MaxListeners
  /\ user' = u
  /\ notified' = TRUE
  /\ createFailed' = FALSE
  /\ IF u # Null
     THEN IF u.isAnonymous
          THEN /\ userProfile' = GuestProfile(guestProfileItem, u, now)
               /\ guestProfileItem' = GuestItem(guestProfileItem, u, now)
               /\ loading' = FALSE
               /\ listeners' = ListenersKept(listeners)
               /\ last' = Ran("authStateChanged", UidOf(u), Null,
                              GuestCalls(guestProfileItem, u, now))
          ELSE /\ listeners' =
                    [ListenersKept(listeners) EXCEPT ![u.uid] = listeners[u.uid] + 1]
               /\ last' = Ran("authStateChanged", UidOf(u), Null,
                              <<[fn |-> "onSnapshot", uid |-> u.uid]>>)
               /\ UNCHANGED <<userProfile, guestProfileItem, loading>>
     ELSE /\ userProfile' = Null
          /\ guestProfileItem' = RemoveItem(guestProfileItem)
          /\ loading' = FALSE
          /\ listeners' = ListenersKept(listeners)
          /\ last' = Ran("authStateChanged", Null, Null, <<[fn |-> "removeItem"]>>)
  /\ UNCHANGED <<creates, backfills, signIns>>

-----------------------------------------------------------------------------
(* The onSnapshot callbacks of a listener opened for member uid            *)
(* (lines 121-190); user in them is the identity the listener was opened   *)
(* for.                                                                    *)

\* lines 132-137: the two updates started for a record without avatar
BackfillCalls(u, data) ==
  IF NeedsAvatar(data)
  THEN <<[fn |-> "updateProfile", uid |-> u.uid, photoURL |-> DefaultAvatarUrl(u.uid)],
         [fn |-> "updateDoc", uid |-> u.uid, photoURL |-> DefaultAvatarUrl(u.uid)]>>
  ELSE <<>>

\* A push that keeps the fields the held profile has beyond the projection
SnapshotExists_Merged(uid, data, now) ==
  /\ listeners[uid] > 0
  /\ NeedsAvatar(data) => backfills[uid] < MaxWrites
  /\ userProfile' =
       IF userProfile.k = "obj"
       THEN Obj(ProfileData(MemberOf(uid), data, now).f @@ userProfile.f)
       ELSE ProfileData(MemberOf(uid), data, now)
  /\ loading' = FALSE
  /\ backfills' = [backfills EXCEPT ![uid] = IF NeedsAvatar(data) THEN @ + 1 ELSE @]
  /\ last' = Ran("snapshotExists", Str(uid), data, BackfillCalls(MemberOf(uid), data))
  /\ UNCHANGED <<user, guestProfileItem, listeners, creates, signIns, notified,
                 createFailed>>

\* lines 122-163: a push of an existing record
SnapshotExists(uid, data, now) ==
  /\ listeners[uid] > 0
  /\ NeedsAvatar(data) => backfills[uid] < MaxWrites
  /\ userProfile' = ProfileData(MemberOf(uid), data, now)
  /\ loading' = FALSE
  /\ backfills' = [backfills EXCEPT ![uid] = IF NeedsAvatar(data) THEN @ + 1 ELSE @]
  /\ last' = Ran("snapshotExists", Str(uid), data, BackfillCalls(MemberOf(uid), data))
  /\ UNCHANGED <<user, guestProfileItem, listeners, creates, signIns, notified,
                 createFailed>>

\* The absent branch presenting the default it is about to create
SnapshotAbsent_Optimistic(uid) ==
  /\ listeners[uid] > 0
  /\ creates[uid] < MaxWrites
  /\ creates' = [creates EXCEPT ![uid] = @ + 1]
  /\ \E now \in Clock :
       userProfile' = ProfileData(MemberOf(uid), NewProfileData(MemberOf(uid)), now)
  /\ loading' = FALSE
  /\ last' = Ran("snapshotAbsent", Str(uid), Null,
                 <<[fn |-> "setDoc", uid |-> uid, data |-> NewProfileData(MemberOf(uid))]>>)
  /\ UNCHANGED <<user, guestProfileItem, listeners, backfills, signIns, notified,
                 createFailed>>

\* lines 164-186: a push saying the record does not exist
SnapshotAbsent(uid) ==
  /\ listeners[uid] > 0
  /\ creates[uid] < MaxWrites
  /\ creates' = [creates EXCEPT ![uid] = @ + 1]
  /\ last' = Ran("snapshotAbsent", Str(uid), Null,
                 <<[fn |-> "setDoc", uid |-> uid, data |-> NewProfileData(MemberOf(uid))]>>)
  /\ UNCHANGED <<user, userProfile, loading, guestProfileItem, listeners,
                 backfills, signIns, notified, createFailed>>

\* lines 187-190: the listener fails, which also ends it
SnapshotError(uid) ==
  /\ listeners[uid] > 0
  /\ loading' = FALSE
  /\ listeners' = [listeners EXCEPT ![uid] = @ - 1]
  /\ last' = Ran("snapshotError", Str(uid), Null, <<>>)
  /\ UNCHANGED <<user, userProfile, guestProfileItem, creates, backfills,
                 signIns, notified, createFailed>>

\* lines 182-185: the catch of setDoc
CreateFailed(uid) ==
  /\ creates[uid] > 0
  /\ creates' = [creates EXCEPT ![uid] = @ - 1]
  /\ loading' = FALSE
  /\ createFailed' = (createFailed \/ UidOf(user) = Str(uid))
  /\ last' = Ran("createFailed", Str(uid), Null, <<>>)
  /\ UNCHANGED <<user, userProfile, guestProfileItem, listeners, backfills,
                 signIns, notified>>

\* line 182: setDoc resolves; nothing waits for it
CreateSucceeded(uid) ==
  /\ creates[uid] > 0
  /\ creates' = [creates EXCEPT ![uid] = @ - 1]
  /\ UNCHANGED <<user, userProfile, loading, guestProfileItem, listeners,
                 backfills, signIns, notified, createFailed, last>>

\* lines 135-137: the catch of the avatar updates only logs
BackfillFailed(uid) ==
  /\ backfills[uid] > 0
  /\ backfills' = [backfills EXCEPT ![uid] = @ - 1]
  /\ last' = Ran("backfillFailed", Str(uid), Null, <<>>)
  /\ UNCHANGED <<user, userProfile, loading, guestProfileItem, listeners,
                 creates, signIns, notified, createFailed>>

\* line 132: the avatar updates resolve; nothing waits for them
BackfillSucceeded(uid) ==
  /\ backfills[uid] > 0
  /\ backfills' = [backfills EXCEPT ![uid] = @ - 1]
  /\ UNCHANGED <<user, userProfile, loading, guestProfileItem, listeners,
                 creates, signIns, notified, createFailed, last>>

-----------------------------------------------------------------------------
(* The handlers App passes to its screens (lines 204-220).                 *)

\* The profiles MainScreen passes to setUserProfile: the held one with a
\* reaction added to its set
NewProfiles(p) ==
  IF p.k # "obj" THEN {}
  ELSE {Obj(("communityPostFireReactions" :> SetV({MemberOrder[1]})) @@ p.f)}
       \ {p}

\* An object that several fields of a profile refer to
SharedHabit == ObjId([text |-> Str(<<"r", "u", "n">>)], 1)

\* The values the screens put into a field of the held profile
FieldEdits ==
  {[key |-> "communityPostFireReactions", value |-> SetV({MemberOrder[1], MemberOrder[2]})],
   [key |-> "startDate", value |-> DateV(7)],
   [key |-> "journalEntries",
    value |-> Arr(<<Obj([timestamp |-> DateV(3), text |-> Str(<<"h", "i">>)])>>)],
   [key |-> "journalEntries",
    value |-> Arr(<<Obj([timestamp |-> Str(IsoDate), text |-> Str(<<"h", "i">>)])>>)],
   [key |-> "habits", value |-> Arr(<<SharedHabit>>)],
   [key |-> "followUpLogs", value |-> Obj([x |-> SharedHabit])],
   [key |-> "followUpLogs", value |-> Obj([lastSeen |-> DateV(9)])],
   [key |-> "followUpLogs", value |-> ObjId([self |-> Ref(2), text |-> Str(<<"h", "i">>)], 2)],
   [key |-> "followUpLogs",
    value |-> ObjId([next |-> ObjId([owner |-> Ref(3), text |-> Str(<<"h", "i">>)], 4)], 3)],
   [key |-> "followUpLogs", value |-> ObjId([list |-> Arr(<<Num(1), Ref(5)>>)], 5)],
   [key |-> "followUpLogs",
    value |-> Obj([handle |-> Instance("Object", [path |-> Str(<<"u">>)]),
                   text |-> Str(<<"h", "i">>)])],
   [key |-> "followUpLogs",
    value |-> Obj([cache |-> Instance("Map", <<>>), text |-> Str(<<"h", "i">>)])]}

\* The profiles MainScreen passes to setUserProfile: the held one with one
\* field replaced
EditedProfiles(p) ==
  IF p.k # "obj" THEN {}
  ELSE {Obj((e.key :> e.value) @@ p.f) : e \in FieldEdits} \ {p}

\* A test that takes every identity for a guest
PersistsLocally_Anyone(u) == u # Null

\* line 206: if (user?.isAnonymous)
PersistsLocally(u) == u # Null /\ u.isAnonymous

\* line 208: setItem is reached unless JSON.stringify throws
Stores(u, newProfile) ==
  PersistsLocally(u) /\ stringify(newProfile).t # "typeerror"

\* lines 204-210: handleUpdateProfile, which MainScreen calls
handleUpdateProfile(newProfile) ==
  /\ Screen = "main"
  /\ userProfile' = newProfile
  /\ guestProfileItem' =
       IF Stores(user, newProfile) THEN SetItemText(stringify(newProfile))
       ELSE guestProfileItem
  /\ last' = Ran("handleUpdateProfile", UidOf(user), newProfile,
                 IF Stores(user, newProfile)
                 THEN <<[fn |-> "setItem", text |-> SetItemText(stringify(newProfile))]>>
                 ELSE <<>>)
  /\ UNCHANGED <<user, loading, listeners, creates, backfills, signIns,
                 notified, createFailed>>

\* lines 212-215: handleGuestLogin, which Auth calls, up to its await
handleGuestLogin ==
  /\ Screen = "auth"
  /\ signIns < MaxSignIns
  /\ loading' = TRUE
  /\ signIns' = signIns + 1
  /\ last' = Ran("handleGuestLogin", UidOf(user), Null, <<[fn |-> "signInAnonymously"]>>)
  /\ UNCHANGED <<user, userProfile, guestProfileItem, listeners, creates,
                 backfills, notified, createFailed>>

\* lines 216-219: signInAnonymously rejects
GuestLoginFailed ==
  /\ signIns > 0
  /\ signIns' = signIns - 1
  /\ loading' = FALSE
  /\ last' = Ran("guestLoginFailed", UidOf(user), Null, <<>>)
  /\ UNCHANGED <<user, userProfile, guestProfileItem, listeners, creates,
                 backfills, notified, createFailed>>

\* line 215: signInAnonymously resolves; the identity it signed in is
\* delivered by the onAuthStateChanged callback
GuestLoginSucceeded ==
  /\ signIns > 0
  /\ signIns' = signIns - 1
  /\ UNCHANGED <<user, userProfile, loading, guestProfileItem, listeners,
                 creates, backfills, notified, createFailed, last>>

-----------------------------------------------------------------------------

Next ==
  \/ \E u \in Users \cup {Null}, now \in Clock : AuthStateChanged(u, now)
  \/ \E uid \in MemberUids, data \in RemoteRecords, now \in Clock :
       SnapshotExists(uid, data, now)
  \/ \E uid \in MemberUids : SnapshotAbsent(uid)
  \/ \E uid \in MemberUids : SnapshotError(uid)
  \/ \E uid \in MemberUids : CreateFailed(uid)
  \/ \E uid \in MemberUids : CreateSucceeded(uid)
  \/ \E uid \in MemberUids : BackfillFailed(uid)
  \/ \E uid \in MemberUids : BackfillSucceeded(uid)
  \/ \E newProfile \in NewProfiles(userProfile) : handleUpdateProfile(newProfile)
  \/ handleGuestLogin
  \/ GuestLoginFailed
  \/ GuestLoginSucceeded

Spec == Init /\ [][Next]_vars

\* The page is loaded again: the App mounts anew over the local store as the
\* run before left it
Remount ==
  /\ notified
  /\ user' = Null
  /\ userProfile' = Null
  /\ loading' = TRUE
  /\ listeners' = [uid \in MemberUids |-> 0]
  /\ creates' = [uid \in MemberUids |-> 0]
  /\ backfills' = [uid \in MemberUids |-> 0]
  /\ signIns' = 0
  /\ notified' = FALSE
  /\ createFailed' = FALSE
  /\ last' = [op |-> "mount", who |-> Null, arg |-> Null, calls |-> <<>>,
              from |-> Null, ready |-> FALSE]
  /\ UNCHANGED guestProfileItem

\* The guest branch alone, with the profiles the screens may pass to
\* handleUpdateProfile: what is stored by one run is decoded by the next
InitCodec == Init /\ guestProfileItem = NoItem

NextCodec ==
  \/ \E now \in Clock : AuthStateChanged(Guest1, now)
  \/ \E newProfile \in EditedProfiles(userProfile) : handleUpdateProfile(newProfile)
  \/ Remount

SpecCodec == InitCodec /\ [][NextCodec]_vars

\* The member branch alone, with every member identity signing in and out:
\* the pushes of existing records and the avatar updates they start
InitAvatar == Init /\ guestProfileItem = NoItem

NextAvatar ==
  \/ \E u \in Members \cup {Null}, now \in Clock : AuthStateChanged(u, now)
  \/ \E uid \in MemberUids, data \in RemoteRecords, now \in Clock :
       SnapshotExists(uid, data, now)
  \/ \E uid \in MemberUids : BackfillFailed(uid)
  \/ \E uid \in MemberUids : BackfillSucceeded(uid)

SpecAvatar == InitAvatar /\ [][NextAvatar]_vars

-----------------------------------------------------------------------------
(* The caller-facing surface, and the steps the properties speak of.       *)

\* The id of the held profile; Undef when nothing with an id is held
HeldId == IF userProfile.k = "obj" THEN Field(userProfile.f, "uid") ELSE Undef

\* A step of the onAuthStateChanged callback
AuthStep == notified' /\ (~notified \/ user' # user)

\* A step in which an identity becomes active as a guest
GuestStep == AuthStep /\ user' # Null /\ user'.isAnonymous

\* A step of handleUpdateProfile
UpdateStep == last'.op = "handleUpdateProfile" /\ userProfile' # userProfile

\* A step in which a push for uid reports the record absent
AbsentStep(uid) == creates'[uid] = creates[uid] + 1

\* A step in which a create or an avatar update for uid settles
SettleStep(uid) == creates'[uid] < creates[uid] \/ backfills'[uid] < backfills[uid]

\* The first n characters of s
FirstChars(s, n) == [i \in 1..(IF Len(s) < n THEN Len(s) ELSE n) |-> s[i]]

\* Whether part occurs in s
Contains(s, part) ==
  /\ Len(part) <= Len(s)
  /\ \E i \in 0..(Len(s) - Len(part)) : SubSeq(s, i + 1, i + Len(part)) = part

\* The local store holds no usable snapshot: none, or one that fails to decode
NoSnapshot(item) == item.t \in {"absent", "empty"} \/ ParseThrows(item)

\* p is the guest default of the identity uid, field by field
IsGuestDefaultFor(p, uid) ==
  /\ p.k = "obj"
  /\ Field(p.f, "uid") = Str(uid)
  /\ Field(p.f, "displayName").k = "str"
  /\ Contains(Field(p.f, "displayName").v, FirstChars(uid, 5))
  /\ Field(p.f, "createdAt").k = "date"
  /\ Field(p.f, "isAdmin") = Bool(FALSE)
  /\ Field(p.f, "isMuted") = Bool(FALSE)
  /\ \A c \in {"emergencyIndex", "urgeIndex", "storyIndex"} : Field(p.f, c) = Num(0)
  /\ \A c \in {"blockedUsers", "journalEntries", "habits"} : Field(p.f, c) = Arr(<<>>)
  /\ Field(p.f, "followUpLogs") = Obj(<<>>)
  /\ Field(p.f, "commitmentDocument") = Str(<<>>)
  /\ Field(p.f, "communityPostFireReactions") = SetV({})

\* d is the record a new member m is created with, field by field
IsMemberDefaultFor(d, m) ==
  /\ d.displayName = IF Truthy(m.displayName) THEN m.displayName ELSE Str(NewUserName)
  /\ d.createdAt = ServerTimestamp
  /\ d.isAdmin = Bool(FALSE)
  /\ d.isMuted = Bool(FALSE)
  /\ d.role = Null
  /\ d.commitmentDocument = Str(<<>>)
  /\ d.blockedUsers = Arr(<<>>)
  /\ \A c \in {"emergencyIndex", "urgeIndex", "storyIndex"} : d[c] = Num(0)
  /\ \A c \in {"email", "photoURL"} :
       IF Truthy(m[c]) THEN c \in DOMAIN d /\ d[c] = m[c] ELSE c \notin DOMAIN d

RECURSIVE Kinds(_)
\* The kinds of value that occur in v
Kinds(v) ==
  {v.k} \cup
    CASE v.k = "arr" -> UNION {Kinds(v.e[i]) : i \in 1..Len(v.e)}
      [] v.k \in {"obj", "instance"} -> UNION {Kinds(v.f[key]) : key \in DOMAIN v.f}
      [] v.k = "set" -> UNION {Kinds(x) : x \in v.m}
      [] OTHER -> {}

\* v is made of recognized shapes only: primitives, points in time, sets,
\* arrays and plain objects
Recognized(v) ==
  Kinds(v) \subseteq {"undef", "null", "bool", "num", "str", "date", "set", "arr", "obj"}

RECURSIVE FieldWise(_)
\* v as a field-by-field comparison sees it: without the identities of its
\* objects and without the fields that hold undefined
FieldWise(v) ==
  CASE v.k = "arr" -> Arr([i \in 1..Len(v.e) |-> FieldWise(v.e[i])])
    [] v.k = "obj" ->
         Obj([key \in {c \in DOMAIN v.f : v.f[c].k # "undef"} |-> FieldWise(v.f[key])])
    [] v.k = "date" -> DateV(v.t)
    [] v.k = "set" -> SetV(v.m)
    [] OTHER -> v

RECURSIVE LeftOut(_, _, _)
\* v without the values of kind kind: a field holding one is removed; an
\* array element that is one is removed when shorten, else replaced by null
LeftOut(v, kind, shorten) ==
  CASE v.k = "arr" ->
         LET kept == IF shorten THEN SelectSeq(v.e, LAMBDA x : x.k # kind) ELSE v.e
         IN [v EXCEPT !.e = [i \in 1..Len(kept) |->
                               IF kept[i].k = kind THEN Null
                               ELSE LeftOut(kept[i], kind, shorten)]]
    [] v.k \in {"obj", "instance"} ->
         [v EXCEPT !.f = [key \in {c \in DOMAIN v.f : v.f[c].k # kind} |->
                            LeftOut(v.f[key], kind, shorten)]]
    [] OTHER -> v

\* A guest's call of handleUpdateProfile ran last
GuestUpdated ==
  last.op = "handleUpdateProfile" /\ user # Null /\ user.isAnonymous

-----------------------------------------------------------------------------
(* The properties.                                                         *)

\* C1: whenever an identity is active and a profile is held, the held
\* profile's id is the id of the active identity.
C1_ProfileIdIsIdentityId ==
  (user # Null /\ userProfile # Null) => HeldId = UidOf(user)

\* C2: when the identity is lost while a guest profile is Ready, then right
\* after the callback no profile is held, the local store has no item under
\* 'guestProfile' and loading is false.
C2_LossPurgesGuest ==
  [][(/\ AuthStep
      /\ user # Null /\ user.isAnonymous
      /\ ~loading /\ Truthy(userProfile)
      /\ user' = Null)
     => (userProfile' = Null /\ guestProfileItem' = NoItem /\ loading' = FALSE)]_vars

C2_Witness ==
  /\ last.op = "authStateChanged" /\ last.who = Null
  /\ last.from \in {Str(g.uid) : g \in Guests} /\ last.ready
  /\ user = Null /\ userProfile = Null /\ guestProfileItem = NoItem /\ ~loading

\* C3: while no identity is active, no profile is held.
C3_NoProfileWithoutIdentity == user = Null => userProfile = Null

\* C4: every open listener is for the active member identity, so none is
\* open while the identity is absent or a guest, and at most one is open.
C4_ListenersFollowIdentity ==
  \A uid \in MemberUids :
    listeners[uid] > 0 =>
      /\ user # Null /\ ~user.isAnonymous /\ user.uid = uid
      /\ listeners[uid] = 1

\* C5: when a create or an avatar update issued for identity A settles while
\* the active identity is not A, neither loading nor the held profile changes.
C5_StaleResultDiscarded ==
  [][\A uid \in MemberUids :
       (SettleStep(uid) /\ UidOf(user) # Str(uid))
       => (loading' = loading /\ userProfile' = userProfile)]_vars

\* C6: when an identity becomes active as a guest and the local store holds
\* no snapshot, or one that fails to decode, the callback ends Ready, holding
\* the guest default of that identity, and the local store then holds a
\* text that decodes to the held profile.
C6_GuestDefaultStored ==
  [][(GuestStep /\ NoSnapshot(guestProfileItem))
     => /\ ~loading'
        /\ IsGuestDefaultFor(userProfile', user'.uid)
        /\ ~NoSnapshot(guestProfileItem')
        /\ parse(guestProfileItem') = userProfile']_vars

C6_Witness ==
  /\ last.op = "authStateChanged" /\ user # Null /\ user.isAnonymous
  /\ Len(last.calls) = 2 /\ last.calls[1].fn = "removeItem"
  /\ last.calls[2].fn = "setItem"
  /\ ~loading /\ IsGuestDefaultFor(userProfile, user.uid)
  /\ guestProfileItem = last.calls[2].text
  /\ parse(guestProfileItem) = userProfile

\* C7, as claimed: when an identity becomes active as a guest and the stored
\* text is valid JSON, whatever it decodes to, the callback ends Ready holding
\* exactly the decoded value and leaves the local store as it was.
C7_AnyValidHeldAsIs ==
  [][(GuestStep /\ ~NoSnapshot(guestProfileItem))
     => /\ userProfile' = parse(guestProfileItem)
        /\ guestProfileItem' = guestProfileItem
        /\ ~loading']_vars

\* C7, amended: the decoded value is held as it is, and the local store left
\* as it was, when the decoded value is truthy; a text that decodes to a
\* falsy value (null) is treated as no snapshot: the guest default is held
\* and stored.
C7_TruthyHeldAsIs ==
  [][(GuestStep /\ ~NoSnapshot(guestProfileItem))
     => IF Truthy(parse(guestProfileItem))
        THEN /\ userProfile' = parse(guestProfileItem)
             /\ guestProfileItem' = guestProfileItem
             /\ ~loading'
        ELSE /\ IsGuestDefaultFor(userProfile', user'.uid)
             /\ parse(guestProfileItem') = userProfile'
             /\ ~loading']_vars

C7_Witness ==
  /\ last.op = "authStateChanged" /\ user # Null /\ user.isAnonymous
  /\ last.calls = <<>>
  /\ guestProfileItem = PartialSnapshot
  /\ userProfile = Obj([displayName |-> Str(<<"o", "l", "d">>)])
  /\ ~loading

\* C8: handleUpdateProfile replaces the held profile by its argument; for a
\* guest it writes the argument's encoding to the local store, once; for a
\* member it leaves the local store alone and starts no remote call.
C8_UpdateFrame ==
  [][UpdateStep
     => /\ userProfile' = last'.arg
        /\ user' = user /\ loading' = loading
        /\ IF user # Null /\ user.isAnonymous
           THEN /\ last'.calls = <<[fn |-> "setItem", text |-> stringify(last'.arg)]>>
                /\ guestProfileItem' = stringify(last'.arg)
           ELSE /\ last'.calls = <<>>
                /\ guestProfileItem' = guestProfileItem
        /\ creates' = creates /\ backfills' = backfills /\ listeners' = listeners]_vars

C8_Witness ==
  /\ last.op = "handleUpdateProfile" /\ user # Null /\ user.isAnonymous
  /\ Len(last.calls) = 1 /\ last.calls[1].fn = "setItem"
  /\ guestProfileItem = last.calls[1].text
  /\ userProfile = last.arg
  /\ parse(guestProfileItem) = userProfile

\* C9: a push reporting the record absent starts a create with the member
\* default and changes neither the held profile nor loading; a profile of
\* the active member becomes the held one only in a push reporting that the
\* record exists.
C9_AbsentCreatesOnly ==
  /\ [][\A uid \in MemberUids :
          AbsentStep(uid)
          => /\ userProfile' = userProfile
             /\ loading' = loading
             /\ Len(last'.calls) = 1
             /\ last'.calls[1].fn = "setDoc"
             /\ last'.calls[1].uid = uid
             /\ IsMemberDefaultFor(last'.calls[1].data, MemberOf(uid))]_vars
  /\ [][(/\ user' = user /\ user # Null /\ ~user.isAnonymous
         /\ HeldId # UidOf(user) /\ HeldId' = UidOf(user))
        => (last'.op = "snapshotExists" /\ last'.who = UidOf(user))]_vars

C9_Witness ==
  /\ last.op = "snapshotAbsent" /\ user # Null /\ ~user.isAnonymous
  /\ last.who = UidOf(user)
  /\ creates[user.uid] = 1
  /\ userProfile = Null /\ loading

\* C10: once the create has failed for the active identity, and
\* until the next callback of onAuthStateChanged, loading is false and a
\* held profile of none stays none.
C10_FailureKeepsOutOfReady ==
  [][createFailed' => (~loading' /\ (userProfile = Null => userProfile' = Null))]_vars

\* C11: after the listener of the active member identity has failed, loading
\* is false and no profile is held.
C11_ErrorClearsProfile ==
  (last.op = "snapshotError" /\ last.who = UidOf(user))
  => (~loading /\ userProfile = Null)

\* C12: a push of an existing record always leaves a profile with a
\* non-empty avatar held; when the record has no avatar field, the held
\* avatar is the candidate at index (code of the uid's first character) mod N
\* and the push starts updateProfile and updateDoc with that same candidate.
C12_AvatarAssigned ==
  last.op = "snapshotExists"
  => /\ userProfile.k = "obj"
     /\ Truthy(Field(userProfile.f, "photoURL"))
     /\ "photoURL" \notin DOMAIN last.arg
        => LET uid == last.who.v
               pick == Str(AVATAR_OPTIONS[(CharCode[uid[1]] % Len(AVATAR_OPTIONS)) + 1])
           IN /\ Field(userProfile.f, "photoURL") = pick
              /\ Len(last.calls) = 2
              /\ {last.calls[i].fn : i \in 1..2} = {"updateProfile", "updateDoc"}
              /\ \A i \in 1..2 : last.calls[i].uid = uid /\ last.calls[i].photoURL = pick

C12_Witness ==
  /\ last.op = "snapshotExists" /\ last.arg = EmptyRecord
  /\ user # Null /\ last.who = UidOf(user)
  /\ Field(userProfile.f, "photoURL") = Str(AVATAR_OPTIONS[2])
  /\ backfills[user.uid] = 1

\* C13: for every member uid the avatar index is (code of the uid's first
\* character) mod N and lies in 0..N-1, and every pick made for a uid, in
\* whatever state it is made, is the candidate at that index.
C13_PickIsCodeModN ==
  /\ \A m \in Members :
       /\ avatarIndex(m.uid) = CharCode[m.uid[1]] % Len(AVATAR_OPTIONS)
       /\ avatarIndex(m.uid) \in 0..(Len(AVATAR_OPTIONS) - 1)
  /\ (last.op = "snapshotExists" /\ last.calls # <<>>)
     => \A i \in 1..Len(last.calls) :
          last.calls[i].photoURL =
            Str(AVATAR_OPTIONS[(CharCode[last.who.v[1]] % Len(AVATAR_OPTIONS)) + 1])

C13_Witness ==
  /\ last.op = "snapshotExists" /\ last.who = Str(Member2.uid)
  /\ last.calls # <<>> /\ last.calls[1].photoURL = Str(AVATAR_OPTIONS[3])
  /\ backfills[Member3.uid] = 1 /\ backfills[Member1.uid] = 1
  /\ last.ready

\* C14: after a push of an existing record the held profile is the
\* projection of that push and of nothing else, and loading is false; so the
\* held profile is always the projection of the push delivered last.
C14_PushReplacesWholesale ==
  last.op = "snapshotExists"
  => /\ ~loading
     /\ \E now \in Clock :
          userProfile = ProfileData(MemberOf(last.who.v), last.arg, now)
     /\ DOMAIN userProfile.f =
          {"uid", "displayName", "email", "photoURL", "createdAt", "startDate",
           "isAdmin", "isMuted", "role", "commitmentDocument", "blockedUsers",
           "emergencyIndex", "urgeIndex", "storyIndex"}

C14_Witness ==
  /\ last.op = "snapshotExists" /\ last.arg = NoAvatarRecord
  /\ user # Null /\ last.who = UidOf(user) /\ last.from = UidOf(user)
  /\ last.ready
  /\ Field(userProfile.f, "commitmentDocument") = Str(<<"d">>)
  /\ Field(userProfile.f, "communityPostFireReactions") = Undef
  /\ ~loading

\* C15: the profile projected from an existing record has every defaulted
\* field: the record's value where the record has the field, else the
\* field's default; displayName is always present.
C15_ProjectionDefaults ==
  last.op = "snapshotExists"
  => /\ Field(userProfile.f, "displayName").k = "str"
     /\ \A key \in {"displayName", "isAdmin", "isMuted", "commitmentDocument",
                     "blockedUsers", "emergencyIndex", "urgeIndex", "storyIndex"} :
          key \in DOMAIN last.arg => Field(userProfile.f, key) = last.arg[key]
     /\ \A key \in {"isAdmin", "isMuted"} :
          key \notin DOMAIN last.arg => Field(userProfile.f, key) = Bool(FALSE)
     /\ "commitmentDocument" \notin DOMAIN last.arg
          => Field(userProfile.f, "commitmentDocument") = Str(<<>>)
     /\ "blockedUsers" \notin DOMAIN last.arg
          => Field(userProfile.f, "blockedUsers") = Arr(<<>>)
     /\ \A key \in {"emergencyIndex", "urgeIndex", "storyIndex"} :
          key \notin DOMAIN last.arg => Field(userProfile.f, key) = Num(0)

\* C19: while a member identity is active, a push reporting the record
\* absent starts no create once a create for that identity has failed: the
\* create is not repeated.
C19_CreateNotRepeated ==
  [][\A uid \in MemberUids :
       (AbsentStep(uid) /\ UidOf(user) = Str(uid)) => ~createFailed]_vars

\* C20: whenever a guest identity is active and a profile is held with
\* loading false, the local store holds a text that decodes to the held
\* profile.
C20_StoreMatchesGuestProfile ==
  (user # Null /\ user.isAnonymous /\ ~loading /\ Truthy(userProfile))
  => (~NoSnapshot(guestProfileItem) /\ parse(guestProfileItem) = userProfile)

\* C16: after a guest's update with a profile of recognized shapes only, the
\* stored text decodes to a value equal to that profile field by field.
C16_RoundTrip ==
  (GuestUpdated /\ Recognized(last.arg))
  => /\ ~NoSnapshot(guestProfileItem)
     /\ FieldWise(parse(guestProfileItem)) = FieldWise(last.arg)

\* C17, as claimed: after a guest's update with a profile that contains a
\* cycle, the stored text is JSON and is the text of the profile with every
\* occurrence that closes a cycle left out, whatever was encoded before.
C17_CycleOmitted ==
  (GuestUpdated /\ "ref" \in Kinds(last.arg))
  => /\ guestProfileItem.t = "jobj"
     /\ guestProfileItem = stringify(LeftOut(last.arg, "ref", TRUE))

\* C17, amended: the occurrence that closes a cycle is left out where it is
\* a field of an object and written null where it is an element of an array.
C17_CycleOmittedOrNull ==
  (GuestUpdated /\ "ref" \in Kinds(last.arg))
  => /\ guestProfileItem.t = "jobj"
     /\ guestProfileItem = stringify(LeftOut(last.arg, "ref", FALSE))
     /\ "ref" \notin Kinds(parse(guestProfileItem))

C17_Witness ==
  /\ GuestUpdated /\ last.ready
  /\ Field(last.arg.f, "followUpLogs").k = "obj"
  /\ Field(last.arg.f, "followUpLogs").oid = 3
  /\ Field(parse(guestProfileItem).f, "followUpLogs") =
       Obj([next |-> Obj([text |-> Str(<<"h", "i">>)])])
  /\ Field(parse(guestProfileItem).f, "habits") # Arr(<<>>)

\* C18: after a guest's update with a profile that contains an object of no
\* recognized shape, the stored text is the text of the profile without the
\* field that holds that object.
C18_OpaqueOmitted ==
  (GuestUpdated /\ "instance" \in Kinds(last.arg))
  => /\ guestProfileItem.t = "jobj"
     /\ guestProfileItem = stringify(LeftOut(last.arg, "instance", TRUE))

=============================================================================
